---- MODULE Spec2Model ----
(***************************************************************************)
(* Model of tictactoe_gym/envs/TicTacToeGym.py (class TicTacToeEnv).       *)
(*                                                                         *)
(* The board self.state is a flat array of 9 cells, indexed 0..8 as in the *)
(* source, each holding 0 (empty), 1 (player one) or -1 (player two).      *)
(* The numpy slices of _is_game_over are modelled by the indices a Python  *)
(* slice selects, and the sums are computed over those indices.            *)
(***************************************************************************)
EXTENDS Integers, Sequences, FiniteSets, TLC

VARIABLES
    size,            \* self.size
    state,           \* self.state, a function 0..8 -> {-1, 0, 1}
    current_player,  \* self.current_player
    pc,              \* "idle": no call in progress; "run": inside the loop of run()
    ret,             \* outcome of the last completed call (return values or error)
    moves,           \* k >= 0: k step calls were accepted since the last reset and
                     \* each targeted a cell that was empty; -1: one did not
    scenario,        \* k: the accepted steps since reset are exactly the first k
                     \* moves of Scenario; -1 once they differ
    held             \* what the caller reads in the oldest observation it was
                     \* returned since self.state was last bound to a new array

vars == <<size, state, current_player, pc, ret, moves, scenario, held>>

----------------------------------------------------------------------------
(* Bounds of the model *)

\* the move counter saturates here
MaxMoves == 10

\* actions offered to step() range over -OutOfRange .. StateLen-1+OutOfRange
OutOfRange == 1

\* the largest size given to __init__
MaxSize == 4

----------------------------------------------------------------------------
(* Program constants *)

\* np.zeros(9)
StateLen == 9

\* default value of the size parameter of __init__
DefaultSize == 3

Marks == {-1, 0, 1}

Boards == [0..(StateLen - 1) -> Marks]

\* np.zeros(9)
Zeros == [i \in 0..(StateLen - 1) |-> 0]

----------------------------------------------------------------------------
(* Python / numpy helpers *)

Abs(x) == IF x < 0 THEN -x ELSE x

Min(a, b) == IF a < b THEN a ELSE b

Max(a, b) == IF a > b THEN a ELSE b

\* A negative bound of a slice counts from the end; bounds are clamped to the
\* array (Python slice.indices for a positive step).
SliceBound(b) == Min(Max(IF b < 0 THEN b + StateLen ELSE b, 0), StateLen)

RECURSIVE SumFrom(_, _, _, _)
\* the sum of st[i], st[i+step], ... below stop
SumFrom(st, i, stop, step) ==
    IF i >= stop THEN 0 ELSE st[i] + SumFrom(st, i + step, stop, step)

\* np.sum(st[start:stop:step]), step > 0
SliceSum(st, start, stop, step) ==
    SumFrom(st, SliceBound(start), SliceBound(stop), step)

\* np.sum(np.abs(self.state))
SumAbs(st) ==
    SliceSum([i \in 0..(StateLen - 1) |-> Abs(st[i])], 0, StateLen, 1)

\* the sum of a row slice that stops one cell early
RowSumShort(st, i, n) == SliceSum(st, i * n, (i + 1) * n - 1, 1)

\* np.sum(self.state[i*self.size:(i+1)*self.size])
RowSum(st, i, n) == SliceSum(st, i * n, (i + 1) * n, 1)

\* np.sum(self.state[i::self.size])
ColSum(st, i, n) == SliceSum(st, i, StateLen, n)

\* np.sum(self.state[::self.size+1])
DiagSum(st, n) == SliceSum(st, 0, StateLen, n + 1)

\* the sum of a slice that runs to the end of the array: cells 2, 4, 6 and 8
AntiDiagSumToEnd(st, n) == SliceSum(st, n - 1, StateLen, n - 1)

\* np.sum(self.state[self.size-1:-self.size+1:self.size-1])
AntiDiagSum(st, n) == SliceSum(st, n - 1, 1 - n, n - 1)

----------------------------------------------------------------------------
(* Pure methods of TicTacToeEnv *)

\* a game-over test without the full-board check
LineOnly(st, n) ==
    \/ \E i \in 0..(n - 1) :
          \/ Abs(RowSum(st, i, n)) = n
          \/ Abs(ColSum(st, i, n)) = n
    \/ Abs(DiagSum(st, n)) = n
    \/ Abs(AntiDiagSum(st, n)) = n

\* _is_game_over
IsGameOver(st, n) ==
    \/ \E i \in 0..(n - 1) :
          \/ Abs(RowSum(st, i, n)) = n
          \/ Abs(ColSum(st, i, n)) = n
    \/ Abs(DiagSum(st, n)) = n
    \/ Abs(AntiDiagSum(st, n)) = n
    \/ SumAbs(st) = n * n

\* a result that does not ask whether the game is over
ResultNoGameOverCheck(st, n, cp) ==
    IF SumAbs(st) = n * n
    THEN 0
    ELSE IF cp = 1 THEN 1 ELSE -1

\* a result that is evaluated without the full-board branch
ResultNoDrawBranch(st, n, cp) ==
    IF IsGameOver(st, n)
    THEN IF cp = 1 THEN 1 ELSE -1
    ELSE 0

\* _result
Result(st, n, cp) ==
    IF IsGameOver(st, n)
    THEN IF SumAbs(st) = n * n
         THEN 0
         ELSE IF cp = 1 THEN 1 ELSE -1
    ELSE 0

\* np.reshape(self.state, (-1, n)) raises ValueError unless n divides the
\* number of cells
Reshapable(n) == StateLen % n = 0

\* a reshape into a single row
GetObsFlat(st, n) == <<[c \in 1..StateLen |-> st[c - 1]]>>

\* _get_obs: np.reshape(self.state, (-1, self.size)); rows of n cells
GetObs(st, n) ==
    [r \in 1..(StateLen \div n) |-> [c \in 1..n |-> st[(r - 1) * n + (c - 1)]]]

\* an action-space test that checks the upper end only
ContainsUpperOnly(a, n) == a < n * n

\* self.action_space.contains(action), action_space = Discrete(size*size)
Contains(a, n) == a >= 0 /\ a < n * n

\* an index into self.state; a negative index counts from the end
PyIndex(a) == IF a < 0 THEN a + StateLen ELSE a

\* a placement that compares instead of assigning: nothing is written
PlaceNever(st, a, cp) == st

\* a placement that writes one cell too far
PlaceNext(st, a, cp) ==
    IF st[PyIndex(a)] = 0
    THEN [st EXCEPT ![(PyIndex(a) + 1) % StateLen] = cp]
    ELSE st

\* a placement that overwrites whatever the cell holds
PlaceAlways(st, a, cp) == [st EXCEPT ![PyIndex(a)] = cp]

\* step, lines 119-120: if self.state[action] == 0: self.state[action] = cp
PlaceMark(st, a, cp) ==
    IF st[PyIndex(a)] = 0 THEN [st EXCEPT ![PyIndex(a)] = cp] ELSE st

\* a turn that does not pass
SamePlayer(cp) == cp

\* step, line 127: self.current_player *= -1
NextPlayer(cp) == cp * (-1)

----------------------------------------------------------------------------
(* Return values *)

NoObs == <<>>

Returned(call, obs, reward, terminated, result) ==
    [call |-> call, error |-> "none", observation |-> obs, reward |-> reward,
     terminated |-> terminated, truncated |-> FALSE, result |-> result]

Raised(call, err) ==
    [call |-> call, error |-> err, observation |-> NoObs, reward |-> 0,
     terminated |-> FALSE, truncated |-> FALSE, result |-> 0]

----------------------------------------------------------------------------
(* The draw scenario of the specification *)

Scenario == <<0, 1, 2, 3, 4, 6, 5, 7, 8>>

ScenarioNext(k, a) ==
    IF k >= 0 /\ k < Len(Scenario) /\ Scenario[k + 1] = a THEN k + 1 ELSE -1

----------------------------------------------------------------------------
(* State machine *)

\* actions a caller or an agent may pass to step()
ActionInputs == (0 - OutOfRange)..(StateLen - 1 + OutOfRange)

\* __init__ with the default size, render_mode = None
Init ==
    /\ size = DefaultSize
    /\ state = Zeros
    /\ current_player = 1
    /\ pc = "idle"
    /\ ret = Returned("init", NoObs, 0, FALSE, 0)
    /\ moves = 0
    /\ scenario = 0
    /\ held = NoObs

\* a reset that clears the board and leaves the turn as it is
DoResetKeepsPlayer ==
    /\ state' = Zeros
    /\ ret' = Returned("reset", GetObs(Zeros, size), 0, FALSE, 0)
    /\ moves' = 0
    /\ scenario' = 0
    /\ held' = GetObs(Zeros, size)
    /\ UNCHANGED current_player

\* the body of reset(): the new array (line 49), its reshape (line 50), which
\* raises when the size does not divide 9, then the current player (line 51).
\* The observation returned is a view of the new array.
DoReset ==
    /\ state' = Zeros
    /\ moves' = 0
    /\ scenario' = 0
    /\ IF Reshapable(size)
       THEN /\ current_player' = 1
            /\ ret' = Returned("reset", GetObs(Zeros, size), 0, FALSE, 0)
            /\ held' = GetObs(Zeros, size)
       ELSE /\ ret' = Raised("reset", "ValueError")
            /\ UNCHANGED <<current_player, held>>

\* the body of step(a): the assertion, the indexing, the placement, the
\* reshape, the evaluation of terminated and reward, and the turn flip, in
\* source order.  The placement writes into the array in place, and every
\* observation returned since the array was created is a view of it
\* (np.reshape of a contiguous array), so the write shows in held.
DoStep(a) ==
    IF ~Contains(a, size)
    THEN /\ ret' = Raised("step", "AssertionError")
         /\ UNCHANGED <<state, current_player, moves, scenario, held>>
    ELSE IF PyIndex(a) \notin 0..(StateLen - 1)
    THEN /\ ret' = Raised("step", "IndexError")
         /\ UNCHANGED <<state, current_player, moves, scenario, held>>
    ELSE LET placed == PlaceMark(state, a, current_player)
             moved == IF moves >= 0 /\ state[PyIndex(a)] = 0
                      THEN Min(moves + 1, MaxMoves)
                      ELSE -1
         IN  IF ~Reshapable(size)
             THEN /\ state' = placed
                  /\ ret' = Raised("step", "ValueError")
                  /\ moves' = moved
                  /\ scenario' = -1
                  /\ UNCHANGED <<current_player, held>>
             ELSE /\ state' = placed
                  /\ ret' = Returned("step", GetObs(placed, size),
                                     Result(placed, size, current_player),
                                     IsGameOver(placed, size), 0)
                  /\ current_player' = NextPlayer(current_player)
                  /\ moves' = moved
                  /\ scenario' = ScenarioNext(scenario, a)
                  /\ held' = GetObs(placed, size)

\* reset() called by the user of the environment
Reset ==
    /\ pc = "idle"
    /\ DoReset
    /\ UNCHANGED <<size, pc>>

\* step(a) called by the user of the environment
Step(a) ==
    /\ pc = "idle"
    /\ DoStep(a)
    /\ UNCHANGED <<size, pc>>

\* run(): self.reset() and entry into the loop
RunStart ==
    /\ pc = "idle"
    /\ DoReset
    /\ pc' = IF ret'.error = "none" THEN "run" ELSE "idle"
    /\ UNCHANGED size

\* run(): one iteration of the loop; a is what the current player's agent
\* returned from get_action.  An exception of step leaves run.
RunLoop(a) ==
    /\ pc = "run"
    /\ ~IsGameOver(state, size)
    /\ DoStep(a)
    /\ pc' = IF ret'.error = "none" THEN "run" ELSE "idle"
    /\ UNCHANGED size

\* run(): the loop ends and run returns self._result()
RunReturn ==
    /\ pc = "run"
    /\ IsGameOver(state, size)
    /\ ret' = Returned("run", NoObs, 0, FALSE, Result(state, size, current_player))
    /\ pc' = "idle"
    /\ UNCHANGED <<size, state, current_player, moves, scenario, held>>

Next ==
    \/ Reset
    \/ \E a \in ActionInputs : Step(a)

\* the environment driven through reset() and step()
Spec == Init /\ [][Next]_vars

\* sizes given to __init__
Sizes == 2..MaxSize

\* __init__ with a size argument, render_mode = None
InitSize ==
    /\ size \in Sizes
    /\ state = Zeros
    /\ current_player = 1
    /\ pc = "idle"
    /\ ret = Returned("init", NoObs, 0, FALSE, 0)
    /\ moves = 0
    /\ scenario = 0
    /\ held = NoObs

\* the environment constructed with any of the sizes
SpecSize == InitSize /\ [][Next]_vars

NextRun ==
    \/ RunStart
    \/ \E a \in ActionInputs : RunLoop(a)
    \/ RunReturn

\* the environment driven through run()
SpecRun == Init /\ [][NextRun]_vars

\* run() called again and again; a call in progress keeps executing
SpecRunFair == Init /\ [][NextRun]_vars /\ WF_vars(NextRun)

\* every board with cells in {-1, 0, 1}, either player to move
InitPure ==
    /\ size = DefaultSize
    /\ state \in Boards
    /\ current_player \in {1, -1}
    /\ pc = "idle"
    /\ ret = Returned("init", NoObs, 0, FALSE, 0)
    /\ moves = -1
    /\ scenario = -1
    /\ held = NoObs

\* a call of _is_game_over(); its value is held in ret.terminated
CallIsGameOver ==
    /\ ret' = Returned("_is_game_over", NoObs, 0, IsGameOver(state, size), 0)
    /\ UNCHANGED <<size, state, current_player, pc, moves, scenario, held>>

\* a call of _result(); its value is held in ret.result
CallResult ==
    /\ ret' = Returned("_result", NoObs, 0, FALSE, Result(state, size, current_player))
    /\ UNCHANGED <<size, state, current_player, pc, moves, scenario, held>>

NextPure ==
    \/ CallIsGameOver
    \/ CallResult

\* the pure methods applied to every board
SpecPure == InitPure /\ [][NextPure]_vars

----------------------------------------------------------------------------
(* Vocabulary of the properties *)

\* the 3 rows, the 3 columns, the diagonal and the anti-diagonal
Lines ==
    { {0, 1, 2}, {3, 4, 5}, {6, 7, 8},
      {0, 3, 6}, {1, 4, 7}, {2, 5, 8},
      {0, 4, 8}, {2, 4, 6} }

\* player p owns a complete line of the board st
Owns(st, p) == \E L \in Lines : \A i \in L : st[i] = p

\* no cell of st is empty
Full(st) == \A i \in 0..8 : st[i] # 0

\* st ends the game: a complete line or a full board
Terminal(st) == Owns(st, 1) \/ Owns(st, -1) \/ Full(st)

\* the outcome read off the board: the owner of a complete line, else 0
Outcome(st) == IF Owns(st, 1) THEN 1 ELSE IF Owns(st, -1) THEN -1 ELSE 0

\* the number of cells of st that hold p
Count(st, p) == Cardinality({i \in 0..8 : st[i] = p})

\* a step call with an action in [0, 9)
StepInRange == \E a \in 0..8 : Step(a)

\* a step call with an action outside [0, 9)
StepOutOfRange == \E a \in ActionInputs \ (0..8) : Step(a)

\* the call made in this transition is a step that returns
StepReturns == ret'.call = "step" /\ ret'.error = "none"

\* the call made in this transition is a step that raises
StepRaises == ret'.call = "step" /\ ret'.error # "none"

\* the last call was a step that returned
StepReturned == ret.call = "step" /\ ret.error = "none"

----------------------------------------------------------------------------
(* Properties *)

\* C1: once the game is terminal (a complete line or a full board), no step
\* call with an action in [0, 9) changes any board cell.
C1_BoardFrozenAfterTerminal ==
    [][(Terminal(state) /\ StepInRange) => state' = state]_vars

\* C2: a step with an in-range action taken while the game is not over
\* returns reward +1 if the board after the move holds a complete line of
\* player one, -1 if it holds one of player two, and 0 otherwise.
C2_RewardIsLineOwner ==
    [][(~Terminal(state) /\ StepInRange) => ret'.reward = Outcome(state')]_vars

\* C3: when run returns, its result is 1 if the final board has a complete
\* line of player one, -1 if it has one of player two, and 0 if the board is
\* full with no complete line.
C3_RunReturnsOutcome ==
    (ret.call = "run" /\ ret.error = "none") => ret.result = Outcome(state)

\* C4: a step call made while the game is terminated fails with an error
\* instead of returning a result.
C4_StepFailsWhenTerminated ==
    [][(Terminal(state) /\ StepInRange) => ret'.error # "none"]_vars

\* C5 as stated: in every state reachable by reset and in-range step calls,
\* the number of +1 cells minus the number of -1 cells is 0 or 1.
C5_MarkDifferenceAlways ==
    Count(state, 1) - Count(state, -1) \in {0, 1}

\* C5 as amended: while every step accepted since the last reset targeted a
\* cell that was empty, the number of +1 cells minus the number of -1 cells
\* is 0 or 1.
C5_MarkDifferenceOnEmptyCells ==
    moves >= 0 => Count(state, 1) - Count(state, -1) \in {0, 1}

C5_Witness ==
    moves = 7 /\ Count(state, 1) = 4 /\ Count(state, -1) = 3

\* C6: a step call whose action is outside [0, 9) fails with an error and
\* leaves every board cell and the current player as they were.
C6_OutOfRangeRejected ==
    [][StepOutOfRange =>
          /\ ret'.call = "step"
          /\ ret'.error # "none"
          /\ state' = state
          /\ current_player' = current_player]_vars

C6_Witness ==
    /\ ret.call = "step"
    /\ ret.error = "AssertionError"
    /\ state[8] = 0
    /\ state # Zeros
    /\ current_player = -1

\* C7: every accepted step call (in-range action, target cell empty or
\* occupied) leaves current_player the opposite of what it was; reset sets
\* it to player one; no other call changes it.
C7_TurnAlternates ==
    [][/\ StepReturns => current_player' = 0 - current_player
       /\ Reset => current_player' = 1
       /\ StepRaises => current_player' = current_player]_vars

C7_Witness ==
    StepReturned /\ moves = -1 /\ current_player = 1 /\ Count(state, 1) = 1
        /\ Count(state, -1) = 0

\* C8: in a sequence of steps from reset that each target an empty cell, the
\* 9th step returns terminated=true, the board is then terminal, and there
\* is no 10th such step.
C8_TerminalByNinthMove ==
    /\ moves <= 9
    /\ moves = 9 => Terminal(state)
    /\ (moves = 9 /\ StepReturned) => ret.terminated

C8_Witness ==
    moves = 9 /\ StepReturned /\ ret.terminated /\ Outcome(state) = 0

\* C9: _is_game_over returns true exactly for the boards on which one of the
\* 8 lines is held by a single player or no cell is empty.
C9_GameOverIffLineOrFull ==
    ret.call = "_is_game_over" => (ret.terminated <=> Terminal(state))

C9_Witness ==
    /\ ret.call = "_is_game_over"
    /\ ret.terminated
    /\ \A i \in {2, 4, 6} : state[i] = -1
    /\ \A i \in 0..8 \ {2, 4, 6} : state[i] = 0

C11_FullBoardNoLineIsDraw ==
    (StepReturned /\ Full(state) /\ ~Owns(state, 1) /\ ~Owns(state, -1)) =>
        /\ ret.terminated
        /\ ret.reward = 0
        /\ \A cp \in {1, -1} : Result(state, size, cp) = 0

C11_Witness ==
    /\ StepReturned /\ ret.terminated /\ ret.reward = 0
    /\ Full(state) /\ ~Owns(state, 1) /\ ~Owns(state, -1)
    /\ moves = -1

\* C12: from any reachable state, reset yields a board of 9 empty cells with
\* player one as current player and returns that empty board as observation;
\* a second reset right after a reset changes nothing.
C12_ResetYieldsFreshState ==
    [][Reset =>
          /\ \A i \in 0..8 : state'[i] = 0
          /\ current_player' = 1
          /\ ret'.error = "none"
          /\ ret'.observation = <<<<0, 0, 0>>, <<0, 0, 0>>, <<0, 0, 0>>>>
          /\ (ret.call = "reset" => vars' = vars)]_vars

C12_Witness ==
    ret.call = "reset" /\ ret.error = "none" /\ current_player = 1
        /\ Count(state, 0) = 9

\* C13: a step whose in-range action targets an occupied cell changes no
\* board cell, raises no error and passes the turn to the other player.
C13_OccupiedCellAbsorbed ==
    [][(\E a \in 0..8 : state[a] # 0 /\ Step(a)) =>
          /\ state' = state
          /\ ret'.error = "none"
          /\ current_player' = 0 - current_player]_vars

C13_Witness ==
    /\ StepReturned /\ moves = -1
    /\ state[0] = -1 /\ Count(state, -1) = 1 /\ Count(state, 1) = 2
    /\ current_player = -1

\* the observation obs has n rows of n columns
Shape(obs, n) == Len(obs) = n /\ \A r \in 1..Len(obs) : Len(obs[r]) = n

\* the board has n*n cells, every action of [0, n*n) addresses one of them,
\* and an observation returned by reset or step has n rows of n columns
BoardFits(n) ==
    /\ Cardinality(DOMAIN state) = n * n
    /\ \A a \in 0..(n * n - 1) : a \in DOMAIN state
    /\ ret.call = "reset" => ret.error = "none"
    /\ (ret.call \in {"reset", "step"} /\ ret.error = "none") =>
          Shape(ret.observation, n)

\* C14 as stated: for every size N given at construction, the board has
\* exactly N*N cells after construction and after every reset, every action
\* in [0, N*N) addresses an existing cell and the observation is N by N.
C14_BoardFitsEverySize ==
    pc = "idle" => BoardFits(size)

\* C14 as amended: for the default size 3, the board has exactly 9 cells
\* after construction and after every reset, every action in [0, 9)
\* addresses an existing cell and the observation is 3 by 3.
C14_BoardFitsDefaultSize ==
    (pc = "idle" /\ size = DefaultSize) => BoardFits(size)

C14_Witness ==
    size = DefaultSize /\ ret.call = "reset" /\ ret.error = "none"
        /\ Shape(ret.observation, 3)

\* C15 as stated: run returns after finitely many step calls, whatever
\* in-range actions the two move providers return.
C15_RunTerminates ==
    (pc = "run") ~> (pc = "idle")

\* C15 as amended: run returns after finitely many step calls when the move
\* providers return in-range actions that target empty cells.
C15_RunTerminatesOnEmptyCells ==
    (pc = "run") ~> \/ (pc = "idle" /\ ret.call = "run")
                    \/ moves = -1
                    \/ ret.error # "none"

C15_Witness ==
    pc = "idle" /\ ret.call = "run" /\ moves = 9

\* C16: an observation returned by reset or step keeps its cell values in
\* the hands of the caller through every later step call.
C16_ObservationIsSnapshot ==
    [][(StepInRange /\ held # NoObs) => held' = held]_vars

\* C17: every cell holds -1, 0 or +1, and a step call changes at most one
\* cell: the cell at the action index, from empty to the mark of the player
\* who was current when step was called.
C17_SingleCellWrite ==
    /\ [](state \in Boards)
    /\ [][(StepReturns \/ StepRaises) =>
             \A i \in 0..8 : state'[i] # state[i] =>
                 /\ Step(i)
                 /\ state[i] = 0 /\ state'[i] = current_player
                 /\ \A j \in 0..8 \ {i} : state'[j] = state[j]]_vars

C17_Witness ==
    StepReturned /\ moves = 2 /\ state[4] = 1 /\ state[0] = -1

\* C18: a step returns a non-zero reward only together with terminated=true,
\* and its truncated flag is false.
C18_RewardOnlyWhenTerminated ==
    StepReturned =>
        /\ ~ret.terminated => ret.reward = 0
        /\ ret.truncated = FALSE

C18_Witness ==
    StepReturned /\ ret.terminated /\ ret.reward = -1 /\ ~ret.truncated

\* C19: once _is_game_over is true it stays true through every step call;
\* only reset makes it false again, and reset does.
C19_GameOverAbsorbing ==
    [][/\ (IsGameOver(state, size) /\ ~IsGameOver(state', size)) => Reset
       /\ Reset => ~IsGameOver(state', size)]_vars

C19_Witness ==
    StepReturned /\ moves = 6 /\ Owns(state, 1) /\ IsGameOver(state, size)

\* C20: when every step is made while the game is not over, as in the loop
\* of run, the board never holds a complete line of +1 together with a
\* complete line of -1.
C20_AtMostOneOwner ==
    ~(Owns(state, 1) /\ Owns(state, -1))

C20_Witness ==
    ret.call = "run" /\ moves = -1 /\ Owns(state, -1) /\ Count(state, 1) = 1

====
